---- MODULE Spec2Model ----
(***************************************************************************)
(* A model of direct/src/p3d/PatchMaker.py: the patch graph of            *)
(* PackageVersion nodes and Patchfile edges, the shortest-chain search    *)
(* (getPatchChain), the re-creation of archive files (getRecreateFilePlan *)
(* and getFile), and the publication workflow (buildPatches).             *)
(***************************************************************************)
EXTENDS Integers, Sequences, FiniteSets, TLC

VARIABLES
    pm,           \* the PatchMaker's object graph: fromPatches, toPatches, tempFile, anchors
    startPv,      \* the startPv argument of the getPatchChain query
    targetPv,     \* the PackageVersion getPatchChain is called on
    chainResult,  \* what the query returned
    chainDone,    \* whether the query has returned
    phase,        \* where the interpreter of getPatchChain stands
    stack,        \* its call stack: one frame per active getPatchChain call
    callSelf,     \* the callee of the pending call
    callVisited,  \* the alreadyVisited argument of the pending call
    ret,          \* the value the last call returned
    temps,        \* the temporary files made so far: temps[k] is what file k holds
    lastCall,     \* the last getFile call: its node, what it returned, what it did
    made,         \* per node, the temporary file a getFile call has produced for it
    desc,         \* per package, its descriptor on disk
    archives,     \* per package, what its compressed archives on disk hold
    baseArchive,  \* per package, what its base archive on disk holds
    lastRun,      \* the last buildPatches call: its arguments, how it ended, what it found
    readPkg,      \* what the last readDescFile call on its own has left
    packageVersions, \* PatchMaker.packageVersions: the PackageVersion objects by key
    lastGet,      \* the last getPackageVersion call: its key and what it returned
    handed,       \* the PackageVersion objects getPackageVersion has returned
    packageList   \* PatchMaker.packages of an instance that answers queries

chainVars == <<startPv, targetPv, chainResult, chainDone>>
dfsVars == <<phase, stack, callSelf, callVisited, ret>>
fileVars == <<temps, lastCall, made>>
tableVars == <<packageVersions, lastGet, handed, packageList>>
pubVars == <<desc, archives, baseArchive, lastRun, readPkg, tableVars>>
vars == <<pm, chainVars, dfsVars, fileVars, pubVars>>

----------------------------------------------------------------------------
(* Bounds *)

NumNodes == 3
MaxEdges == 3
DfsMaxEdges == 2

\* Python's None, where a Package or a temporary file is expected
None == 0

\* A PackageVersion is known by its key: the package coordinates (here the
\* number of the package they name) and the hash of the archive
Node(package, hash) == <<package, hash>>
Hash(pv) == pv[2]

\* Python's None, where a PackageVersion is expected
NoNode == Node(None, None)

\* The PackageVersions of one package
Nodes == {Node(1, h) : h \in 1..NumNodes}

\* Python's None as the result of getPatchChain, and a chain it returns
NoChain == [found |-> FALSE, chain |-> <<>>]
Chain(c) == [found |-> TRUE, chain |-> c]

Member(x, s) == \E i \in 1..Len(s) : s[i] = x

\* No PackageVersion is asked for
TableIdle ==
    /\ packageVersions = <<>>
    /\ lastGet = <<>>
    /\ handed = {}
    /\ packageList = <<>>

\* No install tree is looked at
PubIdle ==
    /\ TableIdle
    /\ desc = <<>>
    /\ archives = <<>>
    /\ baseArchive = <<>>
    /\ lastRun = <<>>
    /\ readPkg = <<>>

\* No getPatchChain call is being run step by step
DfsIdle ==
    /\ phase = "off"
    /\ stack = <<>>
    /\ callSelf = NoNode
    /\ callVisited = <<>>
    /\ ret = NoChain

----------------------------------------------------------------------------
(* The object graph *)

\* PatchMaker.__init__ and PackageVersion.__init__: no patches, no temp file, no anchor
EmptyPm(nodes) ==
    [fromPatches |-> [n \in nodes |-> <<>>],
     toPatches |-> [n \in nodes |-> <<>>],
     tempFile |-> [n \in nodes |-> None],
     packageCurrent |-> [n \in nodes |-> None],
     packageBase |-> [n \in nodes |-> None]]

\* mutant: the patchfile is not put on the list of its target
recordPatchfileOneSided(m, patchfile) ==
    [m EXCEPT !.toPatches[patchfile.fromPv] = Append(@, patchfile)]

\* PatchMaker.recordPatchfile: wire the patchfile into both endpoint lists
recordPatchfile(m, patchfile) ==
    [m EXCEPT !.toPatches[patchfile.fromPv] = Append(@, patchfile),
              !.fromPatches[patchfile.toPv] = Append(@, patchfile)]

\* The loop of buildPatchChains over the recorded patches, in declared order
RECURSIVE recordAll(_, _, _)
recordAll(m, patches, i) ==
    IF i > Len(patches) THEN m
    ELSE recordAll(recordPatchfile(m, patches[i]), patches, i + 1)

\* buildPatchChains: the current and the base version are anchored to the package
Anchored(m, package, currentPv, basePv) ==
    [m EXCEPT !.packageCurrent[currentPv] = package, !.packageBase[basePv] = package]

\* A Patchfile object: idx is its identity (its place in the declared order)
Patchfile(i, e) == [idx |-> i, fromPv |-> e[1], toPv |-> e[2]]

EdgeLists(n) == UNION {[1..k -> Nodes \X Nodes] : k \in 0..n}

GraphOf(edges) ==
    recordAll(EmptyPm(Nodes), [i \in 1..Len(edges) |-> Patchfile(i, edges[i])], 1)

----------------------------------------------------------------------------
(* PackageVersion.getPatchChain *)

RECURSIVE getPatchChain(_, _, _, _)
RECURSIVE chainLoop(_, _, _, _, _, _)

\* mutant: the last chain found wins, whatever its length
chainLoopLastWins(m, self, start, alreadyVisited, i, bestPatchChain) ==
    IF i > Len(m.fromPatches[self]) THEN bestPatchChain
    ELSE LET patchfile == m.fromPatches[self][i]
             sub == getPatchChain(m, patchfile.fromPv, start, alreadyVisited)
             patchChain == Append(sub.chain, patchfile)
         IN  chainLoop(m, self, start, alreadyVisited, i + 1,
                 IF sub.found THEN Chain(patchChain) ELSE bestPatchChain)

\* mutant: only the first incoming patchfile is tried
chainLoopFirstOnly(m, self, start, alreadyVisited, i, bestPatchChain) ==
    IF i > Len(m.fromPatches[self]) \/ i > 1 THEN bestPatchChain
    ELSE LET patchfile == m.fromPatches[self][i]
             sub == getPatchChain(m, patchfile.fromPv, start, alreadyVisited)
             patchChain == Append(sub.chain, patchfile)
         IN  chainLoop(m, self, start, alreadyVisited, i + 1,
                 IF sub.found /\ (~bestPatchChain.found
                                  \/ Len(patchChain) < Len(bestPatchChain.chain))
                 THEN Chain(patchChain) ELSE bestPatchChain)

\* mutant: the patchfile is put in front of the chain instead of at its end
chainLoopPrepend(m, self, start, alreadyVisited, i, bestPatchChain) ==
    IF i > Len(m.fromPatches[self]) THEN bestPatchChain
    ELSE LET patchfile == m.fromPatches[self][i]
             sub == getPatchChain(m, patchfile.fromPv, start, alreadyVisited)
             patchChain == <<patchfile>> \o sub.chain
         IN  chainLoop(m, self, start, alreadyVisited, i + 1,
                 IF sub.found /\ (~bestPatchChain.found
                                  \/ Len(patchChain) < Len(bestPatchChain.chain))
                 THEN Chain(patchChain) ELSE bestPatchChain)

\* mutant: a chain as short as the best one so far replaces it
chainLoopLatestOfEqual(m, self, start, alreadyVisited, i, bestPatchChain) ==
    IF i > Len(m.fromPatches[self]) THEN bestPatchChain
    ELSE LET patchfile == m.fromPatches[self][i]
             sub == getPatchChain(m, patchfile.fromPv, start, alreadyVisited)
             patchChain == Append(sub.chain, patchfile)
         IN  chainLoop(m, self, start, alreadyVisited, i + 1,
                 IF sub.found /\ (~bestPatchChain.found
                                  \/ Len(patchChain) <= Len(bestPatchChain.chain))
                 THEN Chain(patchChain) ELSE bestPatchChain)

\* The for loop of getPatchChain, from its i-th patchfile on
chainLoop(m, self, start, alreadyVisited, i, bestPatchChain) ==
    IF i > Len(m.fromPatches[self]) THEN bestPatchChain
    ELSE LET patchfile == m.fromPatches[self][i]
             sub == getPatchChain(m, patchfile.fromPv, start, alreadyVisited)
             patchChain == Append(sub.chain, patchfile)
         IN  chainLoop(m, self, start, alreadyVisited, i + 1,
                 IF sub.found /\ (~bestPatchChain.found
                                  \/ Len(patchChain) < Len(bestPatchChain.chain))
                 THEN Chain(patchChain) ELSE bestPatchChain)

getPatchChain(m, self, start, alreadyVisited) ==
    IF self = start THEN Chain(<<>>)
    ELSE IF Member(self, alreadyVisited) THEN NoChain
    ELSE chainLoop(m, self, start, Append(alreadyVisited, self), 1, NoChain)

----------------------------------------------------------------------------
(* Files.  A temporary file is known by its number, in the order          *)
(* Filename.temporary handed the names out; what a file holds is the hash  *)
(* of the archive it is, or Garbage when it is no archive (never written,  *)
(* cut short, or made from a wrong original).                              *)

Garbage == 0

TempName(k) == [kind |-> "temp", id |-> k]
\* Filename(package.packageDir, package.compressedFilename)
CurrentName(package) == [kind |-> "current", id |-> package]
\* Filename(package.packageDir, package.baseFile.filename + '.pz')
BaseName(package) == [kind |-> "base", id |-> package]
NoFile == [kind |-> "none", id |-> 0]

\* Filename.getExtension: the anchored archives are named *.pz, a temporary
\* file is named patch_<n> with no suffix
getExtension(f) == IF f.kind \in {"current", "base"} THEN "pz" ELSE ""

\* What the file holds; disk tells it for the anchored archives
Content(tmp, disk, f) ==
    CASE f.kind = "temp" -> tmp[f.id]
      [] f.kind = "current" -> disk.current[f.id]
      [] f.kind = "base" -> disk.base[f.id]
      [] OTHER -> Garbage

\* How a call ended: with a Filename, with None, or by raising
ReturnedPath(f) == [kind |-> "path", file |-> f]
ReturnedNone == [kind |-> "None", file |-> NoFile]
Raised(exception) == [kind |-> exception, file |-> NoFile]

----------------------------------------------------------------------------
(* PackageVersion.getRecreateFilePlan *)

\* (None, None, None), and a tuple (startFile, startPv, plan)
NoPlan == [found |-> FALSE, startFile |-> NoFile, startPv |-> NoNode, plan |-> <<>>]
Plan(startFile, start, plan) ==
    [found |-> TRUE, startFile |-> startFile, startPv |-> start, plan |-> plan]

RECURSIVE getRecreateFilePlan(_, _, _)
RECURSIVE planLoop(_, _, _, _, _)

\* mutant: the first plan found is kept, whatever its length
planLoopFirstFound(m, self, alreadyVisited, i, best) ==
    IF i > Len(m.fromPatches[self]) THEN best
    ELSE LET patchfile == m.fromPatches[self][i]
             sub == getRecreateFilePlan(m, patchfile.fromPv, alreadyVisited)
             plan == Append(sub.plan, [patchfile |-> patchfile, pv |-> self])
         IN  planLoop(m, self, alreadyVisited, i + 1,
                 IF sub.found /\ ~best.found
                 THEN Plan(sub.startFile, sub.startPv, plan) ELSE best)

\* The for loop of getRecreateFilePlan, from its i-th patchfile on
planLoop(m, self, alreadyVisited, i, best) ==
    IF i > Len(m.fromPatches[self]) THEN best
    ELSE LET patchfile == m.fromPatches[self][i]
             sub == getRecreateFilePlan(m, patchfile.fromPv, alreadyVisited)
             plan == Append(sub.plan, [patchfile |-> patchfile, pv |-> self])
         IN  planLoop(m, self, alreadyVisited, i + 1,
                 IF sub.found /\ (~best.found \/ Len(plan) < Len(best.plan))
                 THEN Plan(sub.startFile, sub.startPv, plan) ELSE best)

\* mutant: the anchors are looked at before the temporary file
getRecreateFilePlanAnchorFirst(m, self, alreadyVisited) ==
    IF Member(self, alreadyVisited) THEN NoPlan
    ELSE IF m.packageCurrent[self] # None
    THEN Plan(CurrentName(m.packageCurrent[self]), self, <<>>)
    ELSE IF m.packageBase[self] # None
    THEN Plan(BaseName(m.packageBase[self]), self, <<>>)
    ELSE IF m.tempFile[self] # None THEN Plan(TempName(m.tempFile[self]), self, <<>>)
    ELSE planLoop(m, self, Append(alreadyVisited, self), 1, NoPlan)

\* mutant: a temporary file the node already has is not looked at
getRecreateFilePlanNoCache(m, self, alreadyVisited) ==
    IF Member(self, alreadyVisited) THEN NoPlan
    ELSE IF m.packageCurrent[self] # None
    THEN Plan(CurrentName(m.packageCurrent[self]), self, <<>>)
    ELSE IF m.packageBase[self] # None
    THEN Plan(BaseName(m.packageBase[self]), self, <<>>)
    ELSE planLoop(m, self, Append(alreadyVisited, self), 1, NoPlan)

getRecreateFilePlan(m, self, alreadyVisited) ==
    IF m.tempFile[self] # None THEN Plan(TempName(m.tempFile[self]), self, <<>>)
    ELSE IF Member(self, alreadyVisited) THEN NoPlan
    ELSE IF m.packageCurrent[self] # None
    THEN Plan(CurrentName(m.packageCurrent[self]), self, <<>>)
    ELSE IF m.packageBase[self] # None
    THEN Plan(BaseName(m.packageBase[self]), self, <<>>)
    ELSE planLoop(m, self, Append(alreadyVisited, self), 1, NoPlan)

----------------------------------------------------------------------------
(* PackageVersion.getFile and applyPatch.  decompressOk and failAt are    *)
(* what the external routines answer: whether decompressFile succeeds,    *)
(* and which application of a patch fails (0: none).                      *)

\* What a getFile call leaves: the graph, the temporary files, how it ended,
\* the decompressions and patch applications it ran, and the node whose
\* decompression failed
FileOutcome(m, tmp, result, nDecompress, nApply, failedPv) ==
    [pm |-> m, temps |-> tmp, result |-> result,
     nDecompress |-> nDecompress, nApply |-> nApply, failedPv |-> failedPv]

\* The loop of getFile over the plan, from its i-th step on
RECURSIVE applyPlan(_, _, _, _, _, _, _, _)
applyPlan(m, tmp, disk, plan, i, prevFile, failAt, nDecompress) ==
    IF i > Len(plan)
    THEN FileOutcome(m, tmp, ReturnedPath(prevFile), nDecompress, Len(plan), NoNode)
    ELSE LET patchfile == plan[i].patchfile
             pv == plan[i].pv
             \* applyPatch: result = Filename.temporary('', 'patch_')
             result == Len(tmp) + 1
             written == IF Content(tmp, disk, prevFile) = Hash(patchfile.fromPv)
                        THEN Hash(patchfile.toPv) ELSE Garbage
         IN  IF i = failAt
             THEN FileOutcome(m, Append(tmp, Garbage), ReturnedNone, nDecompress, i, NoNode)
             ELSE applyPlan([m EXCEPT !.tempFile[pv] = result], Append(tmp, written),
                            disk, plan, i + 1, TempName(result), failAt, nDecompress)

\* mutant: startPv.tempFile is assigned once decompressFile has succeeded
realizePlanAssignAfter(m, tmp, disk, rp, decompressOk, failAt) ==
    LET startPv_ == rp.startPv
        newTemp == Len(tmp) + 1
        decompressed == decompressOk /\ Content(tmp, disk, rp.startFile) # Garbage
    IN  IF ~rp.found
        \* startFile is None: startFile.getExtension() raises
        THEN FileOutcome(m, tmp, Raised("AttributeError"), 0, 0, NoNode)
        ELSE IF getExtension(rp.startFile) = "pz"
        THEN IF m.tempFile[startPv_] # None
             THEN FileOutcome(m, tmp, Raised("AssertionError"), 0, 0, NoNode)
             ELSE IF ~decompressed
             THEN FileOutcome(m, tmp, ReturnedNone, 1, 0, startPv_)
             ELSE IF rp.plan = <<>>
             THEN FileOutcome([m EXCEPT !.tempFile[startPv_] = newTemp],
                              Append(tmp, Content(tmp, disk, rp.startFile)),
                              ReturnedPath(TempName(newTemp)), 1, 0, NoNode)
             ELSE applyPlan([m EXCEPT !.tempFile[startPv_] = newTemp],
                            Append(tmp, Content(tmp, disk, rp.startFile)),
                            disk, rp.plan, 1, TempName(newTemp), failAt, 1)
        ELSE IF rp.plan = <<>>
        THEN FileOutcome(m, tmp, ReturnedPath(rp.startFile), 0, 0, NoNode)
        ELSE applyPlan(m, tmp, disk, rp.plan, 1, rp.startFile, failAt, 0)

\* getFile from its second statement on: rp is what getRecreateFilePlan returned
realizePlan(m, tmp, disk, rp, decompressOk, failAt) ==
    LET startPv_ == rp.startPv
        newTemp == Len(tmp) + 1
        decompressed == decompressOk /\ Content(tmp, disk, rp.startFile) # Garbage
    IN  IF ~rp.found
        \* startFile is None: startFile.getExtension() raises
        THEN FileOutcome(m, tmp, Raised("AttributeError"), 0, 0, NoNode)
        ELSE IF getExtension(rp.startFile) = "pz"
        THEN IF m.tempFile[startPv_] # None
             THEN FileOutcome(m, tmp, Raised("AssertionError"), 0, 0, NoNode)
             ELSE IF ~decompressed
             THEN FileOutcome([m EXCEPT !.tempFile[startPv_] = newTemp],
                              Append(tmp, Garbage), ReturnedNone, 1, 0, startPv_)
             ELSE IF rp.plan = <<>>
             THEN FileOutcome([m EXCEPT !.tempFile[startPv_] = newTemp],
                              Append(tmp, Content(tmp, disk, rp.startFile)),
                              ReturnedPath(TempName(newTemp)), 1, 0, NoNode)
             ELSE applyPlan([m EXCEPT !.tempFile[startPv_] = newTemp],
                            Append(tmp, Content(tmp, disk, rp.startFile)),
                            disk, rp.plan, 1, TempName(newTemp), failAt, 1)
        ELSE IF rp.plan = <<>>
        THEN FileOutcome(m, tmp, ReturnedPath(rp.startFile), 0, 0, NoNode)
        ELSE applyPlan(m, tmp, disk, rp.plan, 1, rp.startFile, failAt, 0)

getFile(m, tmp, disk, self, decompressOk, failAt) ==
    realizePlan(m, tmp, disk, getRecreateFilePlan(m, self, <<>>), decompressOk, failAt)

----------------------------------------------------------------------------
(* PatchMaker.buildPatchFile, given what the two getFile calls returned.  *)
(* origThere is whether a file is found under the name of an original     *)
(* that is no archive; buildOk is the answer of Patchfile.build.          *)

buildPatchFile(orig, new, tmp, disk, origThere, buildOk) ==
    IF orig.kind # "path"
    \* origFilename is None: origFilename.exists() raises
    THEN "AttributeError"
    ELSE IF Content(tmp, disk, orig.file) = Garbage /\ ~origThere
    THEN "False"
    ELSE IF new.kind # "path"
    \* Patchfile.build takes no None for a Filename
    THEN "TypeError"
    ELSE IF buildOk THEN "True" ELSE "False"

----------------------------------------------------------------------------
(* The install tree.  A descriptor (package.xml) is the record             *)
(*   readable           the file loads and has a <package> element         *)
(*   current            hash of <uncompressed_archive>                     *)
(*   top, base          hash of <top_version>, <base_version>, or None     *)
(*   patchVersion       the patch_version attribute, or None               *)
(*   lastPatchVersion   the last_patch_version attribute, or None          *)
(*   compressed         the file <compressed_archive> names                *)
(*   patches            the <patch> elements, in order                     *)
(* The archive is always named pkg.mf, so a compressed archive is known by *)
(* the number n of its name pkg.mf.n.pz, with Unversioned for pkg.mf.pz,   *)
(* and a patch by the n of pkg.mf.n.patch.pz.  archives[p][n] is the hash  *)
(* of the archive the file pkg.mf.n.pz of package p holds, or Garbage when *)
(* there is no such file; baseArchive[p] the same for pkg.mf.base.pz.      *)

NumPackages == 2
NumHashes == 2
MaxPatchVersion == 3

Packages == 1..NumPackages
Hashes == 1..NumHashes
PubNodes == {Node(p, h) : p \in Packages, h \in Hashes}

\* The compressed archive as the Packager names it: pkg.mf.pz
Unversioned == 0
ArchiveNames == 0..MaxPatchVersion

\* '%s.%s.pz' % (self.currentFile.filename, self.patchVersion)
CompressedName(patchVersion) == patchVersion

\* A <patch> element: the patchfile's name, its <source> and its <target>
PatchElement(file, source, target) == [file |-> file, source |-> source, target |-> target]

\* Patchfile.loadXml and getSourceKey, getTargetKey: the Patchfile object of
\* the i-th <patch> element of a package
LoadedPatchfile(package, i, x) ==
    [idx |-> i, fromPv |-> Node(package, x.source), toPv |-> Node(package, x.target),
     file |-> x.file, sourceFile |-> x.source, targetFile |-> x.target]

\* Patchfile.makeXml
makeXml(patchfile) == PatchElement(patchfile.file, patchfile.sourceFile, patchfile.targetFile)

----------------------------------------------------------------------------
(* Package.readDescFile, with doProcessing as readContentsFile passes it   *)

\* What readDescFile leaves: what it returns, the Package object and the
\* package's files
ReadOutcome(ok, package, arch, baseArch) ==
    [ok |-> ok, package |-> package, archives |-> arch, baseArchive |-> baseArch]

\* Package.__init__, with anyChanges as readDescFile sets it first
NewPackage ==
    [packageName |-> None, currentFile |-> None, topFile |-> None, baseFile |-> None,
     patchVersion |-> 1, compressedFilename |-> None, docCompressed |-> None,
     anyChanges |-> FALSE, patches |-> <<>>]

\* mutant: isNewVersion compares the hashes once the top version is loaded or
\* made up
readPackageElementByHash(p, d, arch, baseArch, doProcessing) ==
    LET hasTop == d.top # None
        topFile == IF hasTop THEN d.top ELSE d.current
        isNewVersion == topFile # d.current
        changes1 == IF hasTop THEN d.top # d.current ELSE TRUE
        patchVersion ==
            IF d.patchVersion # None THEN d.patchVersion
            ELSE IF d.lastPatchVersion # None
            THEN (IF isNewVersion THEN d.lastPatchVersion + 1 ELSE d.lastPatchVersion)
            ELSE 1
        changes2 == changes1 \/ d.patchVersion = None
        oldCompressedFilename == d.compressed
        newCompressedFilename == CompressedName(patchVersion)
        doRename == doProcessing /\ newCompressedFilename # oldCompressedFilename
        \* renameTo succeeds when the old file is there
        renamed == doRename /\ arch[oldCompressedFilename] # Garbage
        arch1 == IF renamed
                 THEN [arch EXCEPT ![newCompressedFilename] = arch[oldCompressedFilename],
                                   ![oldCompressedFilename] = Garbage]
                 ELSE arch
        compressedFilename == IF doRename THEN newCompressedFilename
                              ELSE oldCompressedFilename
        \* the <compressed_archive> element is rewritten only after a rename
        docCompressed == IF renamed THEN newCompressedFilename ELSE oldCompressedFilename
        changes3 == changes2 \/ doRename
        hasBase == d.base # None
        baseFile == IF hasBase THEN d.base ELSE d.current
        \* copyTo of the compressed archive to pkg.mf.base.pz
        baseArch1 == IF ~hasBase /\ doProcessing /\ arch1[compressedFilename] # Garbage
                     THEN arch1[compressedFilename] ELSE baseArch
        changes4 == changes3 \/ ~hasBase
    IN  ReadOutcome(TRUE,
            [packageName |-> p,
             currentFile |-> d.current,
             topFile |-> topFile,
             baseFile |-> baseFile,
             patchVersion |-> patchVersion,
             compressedFilename |-> compressedFilename,
             docCompressed |-> docCompressed,
             anyChanges |-> changes4,
             patches |-> [i \in 1..Len(d.patches) |-> LoadedPatchfile(p, i, d.patches[i])]],
            arch1, baseArch1)

\* readDescFile from the <package> element on
readPackageElement(p, d, arch, baseArch, doProcessing) ==
    LET hasTop == d.top # None
        topFile == IF hasTop THEN d.top ELSE d.current
        \* isNewVersion starts True and is cleared only by an equal top_version
        isNewVersion == ~(hasTop /\ d.top = d.current)
        changes1 == IF hasTop THEN d.top # d.current ELSE TRUE
        patchVersion ==
            IF d.patchVersion # None THEN d.patchVersion
            ELSE IF d.lastPatchVersion # None
            THEN (IF isNewVersion THEN d.lastPatchVersion + 1 ELSE d.lastPatchVersion)
            ELSE 1
        changes2 == changes1 \/ d.patchVersion = None
        oldCompressedFilename == d.compressed
        newCompressedFilename == CompressedName(patchVersion)
        doRename == doProcessing /\ newCompressedFilename # oldCompressedFilename
        \* renameTo succeeds when the old file is there
        renamed == doRename /\ arch[oldCompressedFilename] # Garbage
        arch1 == IF renamed
                 THEN [arch EXCEPT ![newCompressedFilename] = arch[oldCompressedFilename],
                                   ![oldCompressedFilename] = Garbage]
                 ELSE arch
        compressedFilename == IF doRename THEN newCompressedFilename
                              ELSE oldCompressedFilename
        \* the <compressed_archive> element is rewritten only after a rename
        docCompressed == IF renamed THEN newCompressedFilename ELSE oldCompressedFilename
        changes3 == changes2 \/ doRename
        hasBase == d.base # None
        baseFile == IF hasBase THEN d.base ELSE d.current
        \* copyTo of the compressed archive to pkg.mf.base.pz
        baseArch1 == IF ~hasBase /\ doProcessing /\ arch1[compressedFilename] # Garbage
                     THEN arch1[compressedFilename] ELSE baseArch
        changes4 == changes3 \/ ~hasBase
    IN  ReadOutcome(TRUE,
            [packageName |-> p,
             currentFile |-> d.current,
             topFile |-> topFile,
             baseFile |-> baseFile,
             patchVersion |-> patchVersion,
             compressedFilename |-> compressedFilename,
             docCompressed |-> docCompressed,
             anyChanges |-> changes4,
             patches |-> [i \in 1..Len(d.patches) |-> LoadedPatchfile(p, i, d.patches[i])]],
            arch1, baseArch1)

readDescFile(p, d, arch, baseArch, doProcessing) ==
    IF ~d.readable THEN ReadOutcome(FALSE, NewPackage, arch, baseArch)
    ELSE readPackageElement(p, d, arch, baseArch, doProcessing)

----------------------------------------------------------------------------
(* Package.writeDescFile: the descriptor after the call *)

\* mutant: only the newest patch is written back
writeDescFileNewestOnly(d, package) ==
    IF ~package.anyChanges THEN d
    ELSE [readable |-> TRUE,
          current |-> d.current,
          top |-> package.currentFile,
          base |-> package.baseFile,
          patchVersion |-> package.patchVersion,
          lastPatchVersion |-> None,
          compressed |-> package.docCompressed,
          patches |-> IF package.patches = <<>> THEN <<>>
                      ELSE <<makeXml(package.patches[Len(package.patches)])>>]

writeDescFile(d, package) ==
    IF ~package.anyChanges THEN d
    ELSE [readable |-> TRUE,
          current |-> d.current,
          top |-> package.currentFile,
          base |-> package.baseFile,
          patchVersion |-> package.patchVersion,
          lastPatchVersion |-> None,
          compressed |-> package.docCompressed,
          patches |-> [i \in 1..Len(package.patches) |-> makeXml(package.patches[i])]]

----------------------------------------------------------------------------
(* PatchMaker.buildPatchChains over the packages read *)

\* The body of the loop for one package: the three getPackageVersion calls,
\* the anchors, and recordPatchfile for each of its patches
chainPackage(m, package) ==
    recordAll(Anchored(m, package.packageName,
                       Node(package.packageName, package.currentFile),
                       Node(package.packageName, package.baseFile)),
              package.patches, 1)

RECURSIVE buildPatchChains(_, _, _)
buildPatchChains(m, packages, i) ==
    IF i > Len(packages) THEN m
    ELSE buildPatchChains(IF packages[i].baseFile = None THEN m
                          ELSE chainPackage(m, packages[i]),
                          packages, i + 1)

----------------------------------------------------------------------------
(* PatchMaker.processPackage and buildPatch.  A session is the record of   *)
(* the Package objects, the graph, the temporary files, the archives on    *)
(* disk, the packages a patch has been built for, the packages whose top   *)
(* version's file getFile has not produced, the patch whose build or       *)
(* compression failed, and how the run stands: "ok" or the exception that  *)
(* left it.                                                                *)
(* fault is what the external routines answer while one package is worked  *)
(* on; for the other packages they all succeed.                            *)

NoFault ==
    [package |-> None, decompressOk1 |-> TRUE, failAt1 |-> 0,
     decompressOk2 |-> TRUE, failAt2 |-> 0, buildOk |-> TRUE, compressOk |-> TRUE]

Faults ==
    {NoFault}
    \cup {[NoFault EXCEPT !.package = p, !.decompressOk1 = FALSE] : p \in Packages}
    \cup {[NoFault EXCEPT !.package = p, !.decompressOk2 = FALSE] : p \in Packages}
    \cup {[NoFault EXCEPT !.package = p, !.failAt1 = k] : p \in Packages, k \in 1..NumHashes}
    \cup {[NoFault EXCEPT !.package = p, !.buildOk = FALSE] : p \in Packages}
    \cup {[NoFault EXCEPT !.package = p, !.compressOk = FALSE] : p \in Packages}

FaultFor(fault, p) == IF fault.package = p THEN fault ELSE NoFault

\* The archives getRecreateFilePlan names for the anchored versions
SessionDisk(sess) ==
    [current |-> [p \in Packages |-> sess.archives[p][sess.packages[p].compressedFilename]],
     base |-> [p \in Packages |-> sess.baseArchive[p]]]

\* mutant: a failure is passed over and the run goes on
AbortPassedOver(sess, exception) == sess

\* An exception is raised and nothing catches it
Abort(sess, exception) == [sess EXCEPT !.status = exception]

\* mutant: the new Patchfile is recorded in the graph and not appended to the
\* package's patches
recordNewPatchGraphOnly(sess, v1, v2, p, f) ==
    IF ~f.compressOk THEN [sess EXCEPT !.status = "Exception"]
    ELSE LET package == sess.packages[p]
             patchfile == [idx |-> Len(package.patches) + 1, fromPv |-> v1, toPv |-> v2,
                           file |-> package.patchVersion,
                           sourceFile |-> Hash(v1), targetFile |-> Hash(v2)]
         IN  [sess EXCEPT !.packages[p].anyChanges = TRUE,
                          !.pm = recordPatchfile(@, patchfile),
                          !.authored = @ \cup {p}]

\* Patchfile.build or compressFile has answered false for package p
NoFailure == [package |-> None, kind |-> "none"]
Failed(sess, p, kind) == [sess EXCEPT !.failure = [package |-> p, kind |-> kind]]

\* mutant: the answer of compressFile is not looked at
recordNewPatchUnchecked(sess, v1, v2, p, f) ==
    LET package == sess.packages[p]
        patchfile == [idx |-> Len(package.patches) + 1, fromPv |-> v1, toPv |-> v2,
                      file |-> package.patchVersion,
                      sourceFile |-> Hash(v1), targetFile |-> Hash(v2)]
        s1 == IF f.compressOk THEN sess ELSE Failed(sess, p, "compress")
    IN  [s1 EXCEPT !.packages[p].patches = Append(@, patchfile),
                   !.packages[p].anyChanges = TRUE,
                   !.pm = recordPatchfile(@, patchfile),
                   !.authored = @ \cup {p}]

\* buildPatch from its compressFile call on: the new Patchfile is appended to
\* the package's patches and recorded in the graph
recordNewPatch(sess, v1, v2, p, f) ==
    IF ~f.compressOk THEN Abort(Failed(sess, p, "compress"), "Exception")
    ELSE LET package == sess.packages[p]
             patchfile == [idx |-> Len(package.patches) + 1, fromPv |-> v1, toPv |-> v2,
                           file |-> package.patchVersion,
                           sourceFile |-> Hash(v1), targetFile |-> Hash(v2)]
         IN  [sess EXCEPT !.packages[p].patches = Append(@, patchfile),
                          !.packages[p].anyChanges = TRUE,
                          !.pm = recordPatchfile(@, patchfile),
                          !.authored = @ \cup {p}]

\* processPackage's call of buildPatch, and its raise when that returns False
buildPatch(sess, v1, v2, p, f) ==
    LET disk == SessionDisk(sess)
        o1 == getFile(sess.pm, sess.temps, disk, v1, f.decompressOk1, f.failAt1)
        o2 == getFile(o1.pm, o1.temps, disk, v2, f.decompressOk2, f.failAt2)
        \* v1.getFile() has not produced the file of v1
        lacking == \/ o1.result.kind # "path"
                   \/ Content(o1.temps, disk, o1.result.file) = Garbage
        noSource == IF lacking THEN sess.noSource \cup {p} ELSE sess.noSource
        s1 == [sess EXCEPT !.pm = o1.pm, !.temps = o1.temps, !.noSource = noSource]
        s2 == [sess EXCEPT !.pm = o2.pm, !.temps = o2.temps, !.noSource = noSource]
        \* a temporary file that was never written is not there
        built == buildPatchFile(o1.result, o2.result, o2.temps, disk, FALSE, f.buildOk)
    IN  IF o1.result.kind \notin {"path", "None"} THEN Abort(s1, o1.result.kind)
        ELSE IF o2.result.kind \notin {"path", "None"} THEN Abort(s2, o2.result.kind)
        ELSE IF built = "True" THEN recordNewPatch(s2, v1, v2, p, f)
        ELSE IF built = "False"
        THEN Abort(IF Content(o2.temps, disk, o1.result.file) = Garbage THEN s2
                   ELSE Failed(s2, p, "build"),
                   "Exception")
        ELSE Abort(s2, built)

\* mutant: a patch is built whether or not the top version is the current one
processPackageAlways(sess, p, fault) ==
    LET package == sess.packages[p]
    IN  IF package.baseFile = None THEN sess
        ELSE buildPatch(sess, Node(p, package.topFile), Node(p, package.currentFile),
                        p, FaultFor(fault, p))

processPackage(sess, p, fault) ==
    LET package == sess.packages[p]
        topPv == Node(p, package.topFile)
        currentPv == Node(p, package.currentFile)
    IN  IF package.baseFile = None THEN sess
        ELSE IF topPv # currentPv
        THEN buildPatch(sess, topPv, currentPv, p, FaultFor(fault, p))
        ELSE sess

\* The loop of processAllPackages, from the i-th package on; an exception
\* leaves the loop
RECURSIVE processAllPackages(_, _, _)
processAllPackages(sess, i, fault) ==
    IF i > NumPackages \/ sess.status # "ok" THEN sess
    ELSE processAllPackages(processPackage(sess, i, fault), i + 1, fault)

\* The loop of processSomePackages
RECURSIVE processSomePackages(_, _, _, _)
processSomePackages(sess, packageNames, i, fault) ==
    IF i > NumPackages \/ sess.status # "ok" THEN sess
    ELSE processSomePackages(
             IF sess.packages[i].packageName \in packageNames
             THEN processPackage(sess, i, fault) ELSE sess,
             packageNames, i + 1, fault)

----------------------------------------------------------------------------
(* PatchMaker.buildPatches *)

\* packageNames = None: all packages
AllPackages == {None}

\* readContentsFile, then buildPatchChains: the session before processing
readContentsFile(d, arch, baseArch) ==
    LET read == [p \in Packages |-> readDescFile(p, d[p], arch[p], baseArch[p], TRUE)]
        packages == [p \in Packages |-> read[p].package]
    IN  [packages |-> packages,
         pm |-> buildPatchChains(EmptyPm(PubNodes), packages, 1),
         temps |-> <<>>,
         archives |-> [p \in Packages |-> read[p].archives],
         baseArchive |-> [p \in Packages |-> read[p].baseArchive],
         authored |-> {},
         noSource |-> {},
         failure |-> NoFailure,
         status |-> "ok"]

\* The session when buildPatches is left, by return or by an exception
buildPatches(d, arch, baseArch, packageNames, fault) ==
    LET sess == readContentsFile(d, arch, baseArch)
    IN  IF packageNames = AllPackages THEN processAllPackages(sess, 1, fault)
        ELSE processSomePackages(sess, packageNames, 1, fault)

\* writeContentsFile: every package's writeDescFile
writeContentsFile(d, sess) == [p \in Packages |-> writeDescFile(d[p], sess.packages[p])]

\* The packages whose anyChanges is set
Dirty(sess) == {p \in Packages : sess.packages[p].anyChanges}

\* The temporary files that are on disk when buildPatches is left: cleanup
\* is reached by a call that returns, and unlinks the tempFile of every
\* PackageVersion
TempsLeft(sess) ==
    {k \in 1..Len(sess.temps) :
        /\ sess.temps[k] # Garbage
        /\ sess.status = "ok" => \A n \in PubNodes : sess.pm.tempFile[n] # k}

----------------------------------------------------------------------------
(* Spec: an install tree over time.  The Packager authors new versions of  *)
(* the packages, and buildPatches is run on the tree, for all packages or  *)
(* for some, with the external routines failing or not.                    *)

\* No getFile call has been made
NoCall ==
    [self |-> NoNode, result |-> ReturnedNone, nDecompress |-> 0, nApply |-> 0,
     hadFile |-> None]

FileIdle ==
    /\ temps = <<>>
    /\ lastCall = NoCall
    /\ made = [n \in {} |-> None]

NoRun == [ran |-> FALSE]

\* The tree as the Packager leaves it before the first publication: no base
\* version, no top version, no patch, the archive compressed as pkg.mf.pz
FreshDescriptor(h) ==
    [readable |-> TRUE, current |-> h, top |-> None, base |-> None, patchVersion |-> None,
     lastPatchVersion |-> None, compressed |-> Unversioned, patches |-> <<>>]

\* A descriptor that does not load
Unreadable == [FreshDescriptor(None) EXCEPT !.readable = FALSE]

Init ==
    /\ desc \in [Packages -> {FreshDescriptor(1), Unreadable}]
    /\ archives = [p \in Packages |-> [n \in ArchiveNames |-> IF n = Unversioned THEN 1 ELSE Garbage]]
    /\ baseArchive = [p \in Packages |-> Garbage]
    /\ lastRun = NoRun
    /\ readPkg = <<>>
    /\ TableIdle
    /\ pm = EmptyPm({})
    /\ startPv = NoNode
    /\ targetPv = NoNode
    /\ chainResult = NoChain
    /\ chainDone = FALSE
    /\ DfsIdle
    /\ FileIdle

\* The patch version the next publication of the descriptor takes
NextPatchVersion(d) ==
    IF d.patchVersion # None THEN d.patchVersion + 1
    ELSE IF d.lastPatchVersion # None THEN d.lastPatchVersion + 1
    ELSE 1

\* The Packager writes a new archive of package p, with hash h: the new
\* uncompressed_archive and pkg.mf.pz, and patch_version becomes
\* last_patch_version
AuthorVersion(p, h) ==
    /\ desc[p].readable
    /\ h # desc[p].current
    /\ NextPatchVersion(desc[p]) <= MaxPatchVersion
    /\ desc' = [desc EXCEPT ![p] =
                   [@ EXCEPT !.current = h,
                             !.compressed = Unversioned,
                             !.lastPatchVersion =
                                 IF desc[p].patchVersion # None THEN desc[p].patchVersion ELSE @,
                             !.patchVersion = None]]
    /\ archives' = [archives EXCEPT ![p][Unversioned] = h]
    /\ lastRun' = NoRun
    /\ pm' = EmptyPm({})
    /\ UNCHANGED <<baseArchive, readPkg, tableVars, chainVars, dfsVars, fileVars>>

\* The packages for which buildPatches(packageNames) reaches the external
\* routines: those it processes and finds with a top version that is not the
\* current one
Worked(packageNames) ==
    {p \in Packages :
        /\ packageNames = AllPackages \/ p \in packageNames
        /\ LET package == readDescFile(p, desc[p], archives[p], baseArchive[p], TRUE).package
           IN  package.topFile # package.currentFile}

\* PatchMaker(installDir).buildPatches(packageNames); the external routines
\* can fail where the call reaches them
BuildPatches(packageNames, fault) ==
    /\ fault.package \in Worked(packageNames) \cup {None}
    /\ \E sess \in {buildPatches(desc, archives, baseArchive, packageNames, fault)} :
        /\ desc' = IF sess.status = "ok" THEN writeContentsFile(desc, sess) ELSE desc
        /\ archives' = sess.archives
        /\ baseArchive' = sess.baseArchive
        /\ lastRun' = [ran |-> TRUE, packageNames |-> packageNames,
                       result |-> IF sess.status = "ok" THEN "True" ELSE sess.status,
                       worked |-> Worked(packageNames),
                       authored |-> sess.authored,
                       noSource |-> sess.noSource,
                       failure |-> sess.failure,
                       dirty |-> Dirty(sess),
                       savedDescs |-> IF sess.status = "ok" THEN Dirty(sess) ELSE {},
                       savedContents |-> sess.status = "ok",
                       tempsLeft |-> TempsLeft(sess),
                       patches |-> [p \in Packages |-> sess.packages[p].patches]]
        /\ pm' = sess.pm
    /\ UNCHANGED <<readPkg, tableVars, chainVars, dfsVars, fileVars>>

Next ==
    \/ \E p \in Packages, h \in Hashes : AuthorVersion(p, h)
    \/ \E fault \in Faults : BuildPatches(AllPackages, fault)
    \/ \E packageNames \in SUBSET Packages, fault \in Faults : BuildPatches(packageNames, fault)

Spec == Init /\ [][Next]_vars

----------------------------------------------------------------------------
(* SpecRepublish: install trees in which a descriptor can carry            *)
(* patch_version together with a current version that is not its top       *)
(* version.  readDescFile takes patch_version as the patch version of the  *)
(* current archive, whatever the top version is.                           *)

\* A new current version of package p is written and the descriptor keeps
\* its patch_version
RepublishVersion(p, h) ==
    /\ desc[p].readable
    /\ desc[p].patchVersion # None
    /\ h # desc[p].current
    /\ Len(desc[p].patches) < MaxPatchVersion
    /\ desc' = [desc EXCEPT ![p] = [@ EXCEPT !.current = h, !.compressed = Unversioned]]
    /\ archives' = [archives EXCEPT ![p][Unversioned] = h]
    /\ lastRun' = NoRun
    /\ pm' = EmptyPm({})
    /\ UNCHANGED <<baseArchive, readPkg, tableVars, chainVars, dfsVars, fileVars>>

NextRepublish ==
    \/ \E p \in Packages, h \in Hashes : RepublishVersion(p, h)
    \/ \E fault \in Faults : BuildPatches(AllPackages, fault)

SpecRepublish == Init /\ [][NextRepublish]_vars

----------------------------------------------------------------------------
(* SpecRead: readDescFile on a descriptor of any content.  There is one    *)
(* package; its compressed archive and its base archive are on disk or are *)
(* not.                                                                    *)

PatchVersions == 1..MaxPatchVersion

\* last_patch_version is below the highest patch version, for the patch
\* version after it is one the model has
Descriptors ==
    [readable : {TRUE}, current : Hashes, top : {None} \cup Hashes,
     base : {None} \cup Hashes, patchVersion : {None} \cup PatchVersions,
     lastPatchVersion : {None} \cup (PatchVersions \ {MaxPatchVersion}),
     compressed : ArchiveNames, patches : {<<>>}]
    \cup {Unreadable}

InitRead ==
    /\ \E d \in Descriptors, there \in BOOLEAN, baseThere \in BOOLEAN :
           /\ desc = <<d>>
           /\ archives = <<[n \in ArchiveNames |->
                               IF there /\ d.readable /\ n = d.compressed
                               THEN d.current ELSE Garbage]>>
           /\ baseArchive = <<IF baseThere /\ d.readable /\ d.base # None
                              THEN d.base ELSE Garbage>>
    /\ lastRun = <<>>
    /\ readPkg = <<>>
    /\ TableIdle
    /\ pm = EmptyPm({})
    /\ startPv = NoNode
    /\ targetPv = NoNode
    /\ chainResult = NoChain
    /\ chainDone = FALSE
    /\ DfsIdle
    /\ FileIdle

\* package.readDescFile(doProcessing): readPackageDescFile passes False,
\* readContentsFile passes True
ReadDescFile(doProcessing) ==
    \E out \in {readDescFile(1, desc[1], archives[1], baseArchive[1], doProcessing)} :
        /\ readPkg' = [ok |-> out.ok, package |-> out.package, doProcessing |-> doProcessing]
        /\ archives' = <<out.archives>>
        /\ baseArchive' = <<out.baseArchive>>
        /\ UNCHANGED <<desc, lastRun, tableVars, pm, chainVars, dfsVars, fileVars>>

NextRead == \E doProcessing \in BOOLEAN : ReadDescFile(doProcessing)

SpecRead == InitRead /\ [][NextRead]_vars

----------------------------------------------------------------------------
(* SpecQuery: getPatchChainToCurrent calls on one PatchMaker instance over *)
(* an install tree that does not change.  A Patchfile object is known by   *)
(* the Package object it belongs to (the place of that Package in          *)
(* self.packages) and its place among the package's patches.               *)

MaxQueries == 2

\* Descriptors as buildPatches leaves them: after the first publication,
\* after a second version and after a third
PublishedDescriptors ==
    {[FreshDescriptor(1) EXCEPT !.top = 1, !.base = 1, !.patchVersion = 1,
                                !.compressed = CompressedName(1)],
     [FreshDescriptor(2) EXCEPT !.top = 2, !.base = 1, !.patchVersion = 2,
                                !.compressed = CompressedName(2),
                                !.patches = <<PatchElement(2, 1, 2)>>],
     [FreshDescriptor(1) EXCEPT !.top = 1, !.base = 1, !.patchVersion = 3,
                                !.compressed = CompressedName(3),
                                !.patches = <<PatchElement(2, 1, 2), PatchElement(3, 2, 1)>>]}

InitQuery ==
    /\ desc \in [Packages -> PublishedDescriptors \cup {Unreadable}]
    /\ archives = [p \in Packages |->
                      [n \in ArchiveNames |->
                          IF desc[p].readable /\ n = desc[p].compressed
                          THEN desc[p].current ELSE Garbage]]
    /\ baseArchive = [p \in Packages |-> IF desc[p].readable THEN desc[p].base ELSE Garbage]
    /\ lastRun = <<>>
    /\ readPkg = <<>>
    /\ packageVersions = <<>>
    /\ lastGet = <<>>
    /\ handed = {}
    /\ packageList = <<>>
    /\ pm = EmptyPm(PubNodes)
    /\ startPv = NoNode
    /\ targetPv = NoNode
    /\ chainResult = NoChain
    /\ chainDone = FALSE
    /\ DfsIdle
    /\ FileIdle

\* Patchfile.__init__: self.package = package
OwnedBy(package, k) ==
    [package EXCEPT !.patches =
        [i \in 1..Len(package.patches) |->
            [f \in DOMAIN package.patches[i] \cup {"package"} |->
                IF f = "package" THEN k ELSE package.patches[i][f]]]]

\* self.getPatchChainToCurrent(descFilename, fileSpec), for the descriptor of
\* package p and a FileSpec of hash h
GetPatchChainToCurrent(p, h) ==
    /\ Len(packageList) < MaxQueries
    /\ \E out \in {readDescFile(p, desc[p], archives[p], baseArchive[p], FALSE)} :
           IF ~out.ok
           THEN /\ chainResult' = NoChain
                /\ chainDone' = TRUE
                /\ startPv' = NoNode
                /\ targetPv' = NoNode
                /\ UNCHANGED <<packageList, pm>>
           ELSE /\ packageList' = Append(packageList, OwnedBy(out.package, Len(packageList) + 1))
                /\ pm' = buildPatchChains(pm, packageList', 1)
                /\ startPv' = Node(p, h)
                /\ targetPv' = Node(p, out.package.currentFile)
                /\ chainResult' = getPatchChain(pm', targetPv', startPv', <<>>)
                /\ chainDone' = TRUE
    /\ UNCHANGED <<desc, archives, baseArchive, lastRun, readPkg, packageVersions,
                   lastGet, handed, dfsVars, fileVars>>

NextQuery == \E p \in Packages, h \in Hashes : GetPatchChainToCurrent(p, h)

SpecQuery == InitQuery /\ [][NextQuery]_vars

----------------------------------------------------------------------------
(* SpecTable: getPackageVersion calls.  A key is a package's name with a   *)
(* FileSpec (platform, version and hostUrl are the same for all); a        *)
(* FileSpec is a filename with a hash.  buildPatchChains asks with the     *)
(* FileSpecs of the current, the base and the top version, recordPatchfile *)
(* with the source and the target of a patch, getPatchChainToCurrent with  *)
(* the FileSpec it is given.  A PackageVersion object is known by the key  *)
(* it was made with.                                                       *)

FileNames == {"pkg.mf", "pkg.mf.base"}
FileSpec(filename, hash) == [filename |-> filename, hash |-> hash]
Keys == {<<packageName, FileSpec(filename, hash)>> :
            packageName \in Packages, filename \in FileNames, hash \in Hashes}

\* PackageVersion(*key)
PackageVersion(key) == [packageName |-> key[1], file |-> key[2]]

\* mutant: the table is keyed on the FileSpec
TableKeyByFileSpec(key) == key

\* k = (packageName, platform, version, hostUrl, file.hash)
TableKey(key) == <<key[1], key[2].hash>>

\* The table and the object returned
getPackageVersion(table, key) ==
    LET k == TableKey(key)
    IN  IF k \in DOMAIN table
        THEN [table |-> table, pv |-> table[k]]
        ELSE [table |-> (k :> PackageVersion(key)) @@ table, pv |-> PackageVersion(key)]

InitTable ==
    /\ packageVersions = <<>>
    /\ lastGet = <<>>
    /\ handed = {}
    /\ packageList = <<>>
    /\ desc = <<>>
    /\ archives = <<>>
    /\ baseArchive = <<>>
    /\ lastRun = <<>>
    /\ readPkg = <<>>
    /\ pm = EmptyPm({})
    /\ startPv = NoNode
    /\ targetPv = NoNode
    /\ chainResult = NoChain
    /\ chainDone = FALSE
    /\ DfsIdle
    /\ FileIdle

\* self.getPackageVersion(key)
GetPackageVersion(key) ==
    \E out \in {getPackageVersion(packageVersions, key)} :
        /\ packageVersions' = out.table
        /\ lastGet' = [key |-> key, pv |-> out.pv]
        /\ handed' = handed \cup {out.pv}
        /\ UNCHANGED <<desc, archives, baseArchive, lastRun, readPkg, packageList,
                       pm, chainVars, dfsVars, fileVars>>

NextTable == \E key \in Keys : GetPackageVersion(key)

SpecTable == InitTable /\ [][NextTable]_vars

----------------------------------------------------------------------------
(* SpecFile: getFile calls, in any order and on any nodes, in one session  *)
(* of a PatchMaker whose graph is built.  One package; its current and its *)
(* base archive are on disk and hold what the descriptor says.             *)

FileMaxEdges == 2
MaxFailedApplies == 1

\* Temporary file names are handed out up to this many
TempCap == NumNodes + MaxFailedApplies

\* The anchored archives hold the version they are anchored to
AnchoredDisk(m) ==
    LET holds(anchor) ==
            [p \in {1} |->
                IF \E n \in DOMAIN anchor : anchor[n] = p
                THEN Hash(CHOOSE n \in DOMAIN anchor : anchor[n] = p) ELSE Garbage]
    IN  [current |-> holds(m.packageCurrent), base |-> holds(m.packageBase)]

\* The patch lists in one order of declaration each: the plan's length and
\* the temporary files do not depend on which of two equal plans is taken
EdgeRank(e) == Hash(e[1]) * (NumNodes + 1) + Hash(e[2])
SortedEdgeLists(n) ==
    {edges \in EdgeLists(n) :
        \A i \in 1..(Len(edges) - 1) : EdgeRank(edges[i]) <= EdgeRank(edges[i + 1])}

\* The hashes are told apart and nothing more, so the base version is given
\* the first of them and the current version the first or the second
InitFile ==
    /\ \E edges \in SortedEdgeLists(FileMaxEdges), currentPv \in {Node(1, 1), Node(1, 2)} :
           pm = Anchored(GraphOf(edges), 1, currentPv, Node(1, 1))
    /\ temps = <<>>
    /\ lastCall = NoCall
    /\ made = [n \in Nodes |-> None]
    /\ startPv = NoNode
    /\ targetPv = NoNode
    /\ chainResult = NoChain
    /\ chainDone = FALSE
    /\ DfsIdle
    /\ PubIdle

\* self.getFile(), with the answers of decompressFile and Patchfile.apply; rp
\* is the plan its first statement computes
GetFile(self, rp, decompressOk, failAt) ==
    \E out \in {realizePlan(pm, temps, AnchoredDisk(pm), rp, decompressOk, failAt)} :
        /\ Len(out.temps) <= TempCap
        /\ pm' = out.pm
        /\ temps' = out.temps
        /\ lastCall' = [self |-> self, result |-> out.result,
                        nDecompress |-> out.nDecompress, nApply |-> out.nApply,
                        hadFile |-> made[self]]
        /\ made' = [n \in Nodes |->
                       IF made[n] # None THEN made[n]
                       ELSE IF n = out.failedPv THEN None
                       ELSE IF n = self /\ out.result.kind = "path" THEN out.result.file.id
                       ELSE IF pm.tempFile[n] = None THEN out.pm.tempFile[n]
                       ELSE None]
        /\ UNCHANGED <<chainVars, dfsVars, pubVars>>

\* The external routines a call reaches: decompressFile when the plan starts
\* at a compressed archive, Patchfile.apply once per step of the plan
NextFile ==
    \E self \in Nodes :
        \E rp \in {getRecreateFilePlan(pm, self, <<>>)} :
            \E decompressOk \in IF getExtension(rp.startFile) = "pz" THEN BOOLEAN ELSE {TRUE},
               failAt \in 0..Len(rp.plan) :
                GetFile(self, rp, decompressOk, failAt)

SpecFile == InitFile /\ [][NextFile]_vars

----------------------------------------------------------------------------
(* SpecPlan: getFile calls on graphs whose patches are declared in any     *)
(* order, so that a longer way to a node can come before a shorter one in  *)
(* its fromPatches.                                                        *)

PlanMaxEdges == 3

InitPlan ==
    /\ \E edges \in EdgeLists(PlanMaxEdges), currentPv \in {Node(1, 1), Node(1, 2)} :
           pm = Anchored(GraphOf(edges), 1, currentPv, Node(1, 1))
    /\ temps = <<>>
    /\ lastCall = NoCall
    /\ made = [n \in Nodes |-> None]
    /\ startPv = NoNode
    /\ targetPv = NoNode
    /\ chainResult = NoChain
    /\ chainDone = FALSE
    /\ DfsIdle
    /\ PubIdle

SpecPlan == InitPlan /\ [][NextFile]_vars

----------------------------------------------------------------------------
(* SpecChain: one getPatchChain query on an arbitrary patch graph *)

InitChain ==
    /\ \E edges \in EdgeLists(MaxEdges) : pm = GraphOf(edges)
    /\ startPv \in Nodes
    /\ targetPv \in Nodes
    /\ chainResult = NoChain
    /\ chainDone = FALSE
    /\ DfsIdle
    /\ FileIdle
    /\ PubIdle

\* targetPv.getPatchChain(startPv)
Query ==
    /\ ~chainDone
    /\ chainResult' = getPatchChain(pm, targetPv, startPv, <<>>)
    /\ chainDone' = TRUE
    /\ UNCHANGED <<pm, startPv, targetPv, dfsVars, fileVars, pubVars>>

NextChain == Query

SpecChain == InitChain /\ [][NextChain]_vars

----------------------------------------------------------------------------
(* SpecDfs: getPatchChain run call by call, with its call stack.  A frame  *)
(* holds the locals of one active call: self, its own copy of              *)
(* alreadyVisited, the index of the patchfile the for loop stands at, and  *)
(* bestPatchChain.                                                         *)

\* The deepest the recursion is let to go: beyond it the interpreter gives up
StackCap == NumNodes + 2

Frame(self, alreadyVisited) ==
    [self |-> self, alreadyVisited |-> alreadyVisited, i |-> 1, bestPatchChain |-> NoChain]

Top == stack[Len(stack)]
Pop == SubSeq(stack, 1, Len(stack) - 1)

InitDfs ==
    /\ \E edges \in EdgeLists(DfsMaxEdges) : pm = GraphOf(edges)
    /\ startPv \in Nodes
    /\ targetPv \in Nodes
    /\ chainResult = NoChain
    /\ chainDone = FALSE
    /\ phase = "call"
    /\ stack = <<>>
    /\ callSelf = targetPv
    /\ callVisited = <<>>
    /\ ret = NoChain
    /\ FileIdle
    /\ PubIdle

\* mutant: the test for a node already visited is left out
DfsEnterNoLoopTest ==
    /\ phase = "call"
    /\ IF callSelf = startPv
       THEN /\ ret' = Chain(<<>>)
            /\ phase' = "return"
            /\ UNCHANGED stack
       ELSE /\ Len(stack) < StackCap
            /\ stack' = Append(stack, Frame(callSelf, Append(callVisited, callSelf)))
            /\ phase' = "loop"
            /\ UNCHANGED ret
    /\ UNCHANGED <<pm, chainVars, callSelf, callVisited, fileVars, pubVars>>

\* The entry of a call: the two early returns, then the copy of alreadyVisited
DfsEnter ==
    /\ phase = "call"
    /\ IF callSelf = startPv
       THEN /\ ret' = Chain(<<>>)
            /\ phase' = "return"
            /\ UNCHANGED stack
       ELSE IF Member(callSelf, callVisited)
       THEN /\ ret' = NoChain
            /\ phase' = "return"
            /\ UNCHANGED stack
       ELSE /\ Len(stack) < StackCap
            /\ stack' = Append(stack, Frame(callSelf, Append(callVisited, callSelf)))
            /\ phase' = "loop"
            /\ UNCHANGED ret
    /\ UNCHANGED <<pm, chainVars, callSelf, callVisited, fileVars, pubVars>>

\* The for loop takes its next patchfile and calls fromPv.getPatchChain
DfsIterate ==
    /\ phase = "loop"
    /\ Top.i <= Len(pm.fromPatches[Top.self])
    /\ callSelf' = pm.fromPatches[Top.self][Top.i].fromPv
    /\ callVisited' = Top.alreadyVisited
    /\ phase' = "call"
    /\ UNCHANGED <<pm, chainVars, stack, ret, fileVars, pubVars>>

\* The for loop is over: return bestPatchChain
DfsLoopExit ==
    /\ phase = "loop"
    /\ Top.i > Len(pm.fromPatches[Top.self])
    /\ ret' = Top.bestPatchChain
    /\ stack' = Pop
    /\ phase' = "return"
    /\ UNCHANGED <<pm, chainVars, callSelf, callVisited, fileVars, pubVars>>

\* The recursive call returned into the loop body
DfsResume ==
    /\ phase = "return"
    /\ stack # <<>>
    /\ LET patchfile == pm.fromPatches[Top.self][Top.i]
           patchChain == Append(ret.chain, patchfile)
           best == IF ret.found /\ (~Top.bestPatchChain.found
                                    \/ Len(patchChain) < Len(Top.bestPatchChain.chain))
                   THEN Chain(patchChain) ELSE Top.bestPatchChain
       IN  stack' = [stack EXCEPT ![Len(stack)] =
                        [@ EXCEPT !.i = @ + 1, !.bestPatchChain = best]]
    /\ phase' = "loop"
    /\ UNCHANGED <<pm, chainVars, callSelf, callVisited, ret, fileVars, pubVars>>

\* The outermost call returned to the caller of getPatchChain
DfsFinish ==
    /\ phase = "return"
    /\ stack = <<>>
    /\ chainResult' = ret
    /\ chainDone' = TRUE
    /\ phase' = "done"
    /\ UNCHANGED <<pm, startPv, targetPv, stack, callSelf, callVisited, ret, fileVars, pubVars>>

NextDfs == DfsEnter \/ DfsIterate \/ DfsLoopExit \/ DfsResume \/ DfsFinish

\* The call runs synchronously to its end: a step that can be taken is taken
SpecDfs == InitDfs /\ [][NextDfs]_vars /\ WF_vars(NextDfs)

----------------------------------------------------------------------------
(* Paths of the graph, defined without the search *)

\* A walk of exactly k edges leads from s to t
RECURSIVE WalkExists(_, _, _, _)
WalkExists(m, s, t, k) ==
    IF k = 0 THEN s = t
    ELSE \E i \in 1..Len(m.fromPatches[t]) :
             WalkExists(m, s, m.fromPatches[t][i].fromPv, k - 1)

\* Every walk longer than this repeats an edge
WalkLens == 0..(MaxEdges + 1)

PathExists(m, s, t) == \E k \in WalkLens : WalkExists(m, s, t, k)

\* The nodes a chain passes, from the source of its first edge on
ChainNodes(c) == <<c[1].fromPv>> \o [i \in 1..Len(c) |-> c[i].toPv]

IsRecorded(m, patchfile) == Member(patchfile, m.fromPatches[patchfile.toPv])

\* C1: when some path leads from s to t, getPatchChain(t, s) returns a chain
\* no longer than any path from s to t.
C1_ShortestChain ==
    (chainDone /\ PathExists(pm, startPv, targetPv)) =>
        /\ chainResult.found
        /\ \A k \in WalkLens :
               WalkExists(pm, startPv, targetPv, k) => Len(chainResult.chain) <= k

\* a direct edge wins over a longer way that is enumerated first
C1_Witness ==
    /\ chainDone
    /\ startPv # targetPv
    /\ pm.fromPatches[targetPv] # <<>>
    /\ pm.fromPatches[targetPv][1].fromPv # startPv
    /\ WalkExists(pm, startPv, pm.fromPatches[targetPv][1].fromPv, 1)
    /\ WalkExists(pm, startPv, targetPv, 1)
    /\ Len(chainResult.chain) = 1

\* C2: getPatchChain(t, s) returns None exactly when no path leads from s to
\* t, and the empty list exactly when t is s.
C2_NoneIffNoPath ==
    chainDone =>
        /\ (chainResult = NoChain) <=> ~PathExists(pm, startPv, targetPv)
        /\ (chainResult = Chain(<<>>)) <=> (targetPv = startPv)

\* the target has incoming patches, none of which leads back to the source
C2_Witness ==
    /\ chainDone
    /\ chainResult = NoChain
    /\ Len(pm.fromPatches[targetPv]) >= 2

\* C3: a non-empty chain returned by getPatchChain(t, s) is a connected path
\* of recorded patches from s to t that passes no node twice.
C3_ConnectedPath ==
    (chainDone /\ chainResult.found /\ chainResult.chain # <<>>) =>
        LET c == chainResult.chain
            ns == ChainNodes(c)
        IN  /\ c[1].fromPv = startPv
            /\ c[Len(c)].toPv = targetPv
            /\ \A i \in 1..(Len(c) - 1) : c[i].toPv = c[i + 1].fromPv
            /\ \A i \in 1..Len(c) : IsRecorded(pm, c[i])
            /\ \A i, j \in 1..Len(ns) : i # j => ns[i] # ns[j]

\* a chain of two patches or more was returned
C3_Witness ==
    /\ chainDone
    /\ chainResult.found
    /\ Len(chainResult.chain) >= 2

\* Some walk of one edge or more leads from n back to n
OnCycle(m, n) == \E k \in WalkLens \ {0} : WalkExists(m, n, n, k)

\* C4: getPatchChain terminates on every finite graph, cyclic ones and
\* queries with an unreachable target included.
C4_Terminates == <>(phase = "done")

\* the search ran into a cycle, found no path and returned None
C4_Witness ==
    /\ phase = "done"
    /\ chainResult = NoChain
    /\ OnCycle(pm, targetPv)

\* The call-by-call run returns what the recursive definition returns
DfsAgrees == (phase = "done") => chainResult = getPatchChain(pm, targetPv, startPv, <<>>)

\* The recursion is never deeper than the number of nodes
DfsDepth == Len(stack) <= NumNodes

----------------------------------------------------------------------------
(* Claims about getFile *)

Unanchored(m, n) == m.packageCurrent[n] = None /\ m.packageBase[n] = None

\* No node with a file to start from leads to n: none that is anchored, none
\* that holds a temporary file
NoSource(m, n) ==
    \A x \in DOMAIN m.fromPatches :
        PathExists(m, x, n) => (Unanchored(m, x) /\ m.tempFile[x] = None)

\* C5: whenever getFile on a node returns a path, the file there holds the
\* archive the node's hash names, also after calls that failed.
C5_MaterializedContent ==
    lastCall.result.kind = "path" =>
        Content(temps, AnchoredDisk(pm), lastCall.result.file) = Hash(lastCall.self)

\* C6: once getFile has succeeded for a node, as the node asked for or as a
\* node on the way, every later getFile on it returns the same path and runs
\* no decompression and no patch application.
C6_TempReuse ==
    lastCall.hadFile # None =>
        /\ lastCall.result = ReturnedPath(TempName(lastCall.hadFile))
        /\ lastCall.nDecompress = 0
        /\ lastCall.nApply = 0

\* a node re-created on the way to another one is asked for afterwards
C6_Witness ==
    /\ lastCall.hadFile # None
    /\ Unanchored(pm, lastCall.self)
    /\ \E n \in Nodes : n # lastCall.self /\ pm.tempFile[n] > lastCall.hadFile

\* C7: getFile on a node that no anchored node and no node with a temporary
\* file leads to returns None, and buildPatchFile given that missing
\* original returns false.
C7_MissingSourceIsNone ==
    (lastCall.self # NoNode /\ NoSource(pm, lastCall.self)) =>
        /\ lastCall.result = ReturnedNone
        /\ \A origThere, buildOk \in BOOLEAN :
               buildPatchFile(lastCall.result, lastCall.result, temps, AnchoredDisk(pm),
                              origThere, buildOk) = "False"

----------------------------------------------------------------------------
(* Publication: what a buildPatches call does to the install tree *)

\* The hashes a descriptor's patches lead to from the hashes in from, in up
\* to k steps
RECURSIVE Reached(_, _, _)
Reached(patches, from, k) ==
    IF k = 0 THEN from
    ELSE Reached(patches,
                 from \cup {patches[i].target :
                               i \in {j \in 1..Len(patches) : patches[j].source \in from}},
                 k - 1)

\* The descriptor records a chain of patches from its base to its top version
RecordsChain(d) == d.top \in Reached(d.patches, {d.base}, NumHashes)

\* The top version a descriptor is read with
ReadTop(d) == IF d.top # None THEN d.top ELSE d.current

Exceptions == {"AttributeError", "TypeError", "AssertionError", "Exception"}

\* C8 as the claim states it: when a package is in the NewVersion state and
\* the file of its top version is not to be had, buildPatches authors no
\* patch for that package and still returns success, with the descriptors
\* written.
C8_LocalRecovery ==
    (lastRun.ran /\ lastRun.noSource # {}) =>
        /\ lastRun.result = "True"
        /\ lastRun.noSource \cap lastRun.authored = {}

\* C8, amended: when a package that is worked on has a top version whose
\* file getFile does not produce, the buildPatches call is left by an
\* exception, no patch is authored for that package nor for a package that
\* comes after it, and no descriptor is written.
C8_NoLocalRecovery ==
    [][(lastRun'.ran /\ lastRun'.noSource # {}) =>
          /\ lastRun'.result \in Exceptions
          /\ \A p \in lastRun'.noSource, q \in lastRun'.authored : q < p
          /\ desc' = desc]_vars

\* a package was in the NewVersion state, the file of its top version was not
\* produced, and the call was left by an exception with another package in
\* the NewVersion state still to come
C8_Witness ==
    /\ lastRun.ran
    /\ lastRun.result = "AttributeError"
    /\ \E p \in lastRun.noSource, q \in lastRun.worked :
           /\ desc[p].top # None
           /\ desc[p].top # desc[p].current
           /\ q > p

\* C9: for every package read with a top hash that is not the current hash
\* and processed, a successful buildPatches adds to the descriptor exactly
\* one patch, from the previous top version to the current version, and
\* writes the current version's hash as top_version.
C9_OneEdgeTopToCurrent ==
    [][(lastRun'.ran /\ lastRun'.result = "True") =>
          \A p \in lastRun'.worked :
              /\ Len(desc'[p].patches) = Len(desc[p].patches) + 1
              /\ SubSeq(desc'[p].patches, 1, Len(desc[p].patches)) = desc[p].patches
              /\ desc'[p].patches[Len(desc'[p].patches)].source = ReadTop(desc[p])
              /\ desc'[p].patches[Len(desc'[p].patches)].target = desc[p].current
              /\ desc'[p].top = desc'[p].current
              /\ desc'[p].current = desc[p].current
              /\ ReadTop(desc'[p]) = desc'[p].current]_vars

\* a successful run has worked on a package that had patches already
C9_Witness ==
    /\ lastRun.ran
    /\ lastRun.result = "True"
    /\ \E p \in lastRun.worked :
           /\ p \in lastRun.authored
           /\ Len(desc[p].patches) >= 2
           /\ desc[p].top = desc[p].current

\* C10 as the claim states it: every descriptor that has a base version
\* records a chain of patches from its base version to its top version.
C10_ChainBaseToTop ==
    \A p \in Packages : desc[p].base # None => RecordsChain(desc[p])

\* The descriptor is as a publication leaves it: the top version is the
\* current one, patch_version and base_version are there, and the compressed
\* archive carries the patch version in its name
Unchanged(d) ==
    /\ d.top # None
    /\ d.top = d.current
    /\ d.patchVersion # None
    /\ d.base # None
    /\ d.compressed = CompressedName(d.patchVersion)

\* C11 as the claim states it: when every descriptor is unchanged, buildPatches
\* authors no patch, leaves every package's anyChanges false, and writes or
\* changes no file at all.
C11_NothingWritten ==
    [][(lastRun'.ran /\ \A p \in Packages : Unchanged(desc[p])) =>
          /\ lastRun'.authored = {}
          /\ lastRun'.dirty = {}
          /\ lastRun'.savedDescs = {}
          /\ ~lastRun'.savedContents
          /\ UNCHANGED <<desc, archives, baseArchive>>]_vars

\* C11, amended: when every descriptor is unchanged, buildPatches authors no
\* patch, leaves every package's anyChanges false, writes no descriptor and
\* renames or copies no archive; it returns true and the manifest is saved.
C11_OnlyManifestSaved ==
    [][(lastRun'.ran /\ \A p \in Packages : Unchanged(desc[p])) =>
          /\ lastRun'.result = "True"
          /\ lastRun'.authored = {}
          /\ lastRun'.dirty = {}
          /\ lastRun'.savedDescs = {}
          /\ lastRun'.savedContents
          /\ UNCHANGED <<desc, archives, baseArchive>>]_vars

\* buildPatches has run on a tree whose descriptors were all unchanged, some
\* of them with patches
C11_Witness ==
    /\ lastRun.ran
    /\ lastRun.dirty = {}
    /\ lastRun.savedContents
    /\ \A p \in Packages : Unchanged(desc[p])
    /\ \E p \in Packages : desc[p].patches # <<>>

\* C12 as the claim states it: a buildPatches run that follows a successful
\* one, with no new version in between, authors no patch, renames and copies
\* no archive, leaves every package's anyChanges false, and leaves every
\* descriptor's base, top, patch_version and patches as they were.
C12_SecondRunIdle ==
    [][(lastRun.ran /\ lastRun.result = "True" /\ lastRun'.ran) =>
          /\ lastRun'.authored = {}
          /\ archives' = archives
          /\ baseArchive' = baseArchive
          /\ lastRun'.dirty = {}
          /\ \A p \in Packages :
                 /\ desc'[p].base = desc[p].base
                 /\ desc'[p].top = desc[p].top
                 /\ desc'[p].patchVersion = desc[p].patchVersion
                 /\ desc'[p].patches = desc[p].patches]_vars

----------------------------------------------------------------------------
(* readDescFile *)

\* C13 as the claim states it: patchVersion is patch_version when that is
\* there; otherwise, with last_patch_version = n, it is n + 1 exactly when the
\* top hash, loaded or made up, differs from the current hash, and n when
\* they are equal.
C13_IncrementIffHashesDiffer ==
    (readPkg # <<>> /\ readPkg.ok) =>
        LET d == desc[1]
            package == readPkg.package
        IN  /\ d.patchVersion # None => package.patchVersion = d.patchVersion
            /\ (d.patchVersion = None /\ d.lastPatchVersion # None) =>
                   package.patchVersion =
                       IF package.topFile # package.currentFile
                       THEN d.lastPatchVersion + 1 ELSE d.lastPatchVersion

\* C13, amended: patchVersion is patch_version when that is there;
\* otherwise, with last_patch_version = n, it is n when the descriptor has a
\* top_version whose hash is the current hash, and n + 1 in every other case,
\* also when top_version is absent; with neither attribute it is 1.
C13_IncrementUnlessTopIsCurrent ==
    (readPkg # <<>> /\ readPkg.ok) =>
        LET d == desc[1]
            package == readPkg.package
        IN  package.patchVersion =
                IF d.patchVersion # None THEN d.patchVersion
                ELSE IF d.lastPatchVersion = None THEN 1
                ELSE IF d.top # None /\ d.top = d.current THEN d.lastPatchVersion
                ELSE d.lastPatchVersion + 1

\* a descriptor with last_patch_version and no top_version has been read
C13_Witness ==
    /\ readPkg # <<>>
    /\ readPkg.ok
    /\ desc[1].patchVersion = None
    /\ desc[1].lastPatchVersion # None
    /\ desc[1].top = None
    /\ readPkg.package.topFile = readPkg.package.currentFile
    /\ readPkg.package.patchVersion = desc[1].lastPatchVersion + 1

----------------------------------------------------------------------------
(* buildPatches when the external routines fail *)

\* C14: when Patchfile.build or compressFile fails while a patch is authored,
\* buildPatches is left by an exception, no descriptor and no manifest is
\* saved in that call, and the failed patch is in no package's patch list.
C14_FailedPatchNotCommitted ==
    [][(lastRun'.ran /\ lastRun'.failure.kind \in {"build", "compress"}) =>
          /\ lastRun'.result = "Exception"
          /\ lastRun'.savedDescs = {}
          /\ ~lastRun'.savedContents
          /\ desc' = desc
          /\ lastRun'.failure.package \notin lastRun'.authored]_vars

\* the compression of a patch has failed after a patch for another package
\* had been built
C14_Witness ==
    /\ lastRun.ran
    /\ lastRun.failure.kind = "compress"
    /\ lastRun.result = "Exception"
    /\ lastRun.authored # {}

\* C15 as the claim states it: when a buildPatches call was left by an
\* exception and buildPatches is run again and returns, every descriptor it
\* has rewritten names <current>.<patchVersion>.pz as its compressed archive,
\* and that file is on disk.
C15_RerunPublishes ==
    [][(lastRun.ran /\ lastRun.result \in Exceptions
        /\ lastRun'.ran /\ lastRun'.result = "True") =>
          \A p \in lastRun'.savedDescs :
              /\ desc'[p].compressed = CompressedName(desc'[p].patchVersion)
              /\ archives'[p][desc'[p].compressed] # Garbage]_vars

\* C16 as the claim states it: whatever way a buildPatches call ends, no
\* temporary file made during it is left on disk.
C16_NoTempLeft == lastRun.ran => lastRun.tempsLeft = {}

\* C17 as the claim states it: when a descriptor the manifest lists does not
\* load, buildPatches returns false, authors no patch and writes no
\* descriptor and no manifest.
C17_UnreadableAborts ==
    (lastRun.ran /\ \E p \in Packages : ~desc[p].readable) =>
        /\ lastRun.result = "False"
        /\ lastRun.authored = {}
        /\ lastRun.savedDescs = {}
        /\ ~lastRun.savedContents

----------------------------------------------------------------------------
(* The table of PackageVersions *)

SameVersion(a, b) == a.packageName = b.packageName /\ a.file.hash = b.file.hash

\* C18: the table holds at most one PackageVersion per package and hash, and
\* getPackageVersion returns the same object for any two keys with the same
\* package and the same hash, whatever the filenames of their FileSpecs.
C18_OneNodePerHash ==
    /\ \A k1, k2 \in DOMAIN packageVersions :
           SameVersion(packageVersions[k1], packageVersions[k2]) => k1 = k2
    /\ \A a, b \in handed : SameVersion(a, b) => a = b
    /\ lastGet # <<>> =>
           /\ lastGet.pv.packageName = lastGet.key[1]
           /\ lastGet.pv.file.hash = lastGet.key[2].hash
           /\ lastGet.pv \in {packageVersions[k] : k \in DOMAIN packageVersions}

\* a key whose FileSpec has another filename than the one the object was
\* made with has been answered with that object
C18_Witness ==
    /\ lastGet # <<>>
    /\ lastGet.pv.file.filename # lastGet.key[2].filename
    /\ lastGet.pv.file.hash = lastGet.key[2].hash
    /\ Cardinality(DOMAIN packageVersions) >= 2

----------------------------------------------------------------------------
(* The edges of a session's graph *)

Elements(s) == {s[i] : i \in 1..Len(s)}

\* The Patchfile objects of the session: those of the packages and those on
\* the lists of the nodes
RecordedEdges ==
    UNION {Elements(lastRun.patches[p]) : p \in Packages}
        \cup UNION {Elements(pm.toPatches[n]) \cup Elements(pm.fromPatches[n]) :
                        n \in DOMAIN pm.toPatches}

\* C19: every recorded edge is on the toPatches of its fromPv and on the
\* fromPatches of its toPv, and the hashes of its fromPv and its toPv are
\* those of its sourceFile and its targetFile.
C19_EdgesWired ==
    lastRun.ran =>
        \A e \in RecordedEdges :
            /\ Member(e, pm.toPatches[e.fromPv])
            /\ Member(e, pm.fromPatches[e.toPv])
            /\ Hash(e.fromPv) = e.sourceFile
            /\ Hash(e.toPv) = e.targetFile

\* a session with an edge loaded from a descriptor and an edge it authored
C19_Witness ==
    /\ lastRun.ran
    /\ \E p \in lastRun.authored :
           /\ Len(lastRun.patches[p]) >= 2
           /\ Len(desc[p].patches) >= 2

----------------------------------------------------------------------------
(* The temporary file of an anchored node *)

\* packageCurrent or packageBase is set
IsAnchored(m, n) == m.packageCurrent[n] # None \/ m.packageBase[n] # None

----------------------------------------------------------------------------
(* The chain among the shortest ones *)

\* The number of edges of a shortest path from s to t
Dist(m, s, t) == CHOOSE k \in WalkLens :
                     /\ WalkExists(m, s, t, k)
                     /\ \A j \in WalkLens : WalkExists(m, s, t, j) => k <= j

\* The places in t's fromPatches of the patches that end a shortest path from s
Shortest(m, s, t) ==
    {i \in 1..Len(m.fromPatches[t]) :
        LET fromPv == m.fromPatches[t][i].fromPv
        IN  /\ PathExists(m, s, fromPv)
            /\ Dist(m, s, fromPv) + 1 = Dist(m, s, t)}

\* The shortest path from s to t that takes, at t and at each node before it,
\* the patch that comes first in the node's fromPatches
RECURSIVE EarliestChain(_, _, _)
EarliestChain(m, s, t) ==
    IF s = t THEN <<>>
    ELSE LET i == CHOOSE i \in Shortest(m, s, t) : \A j \in Shortest(m, s, t) : i <= j
             patchfile == m.fromPatches[t][i]
         IN  Append(EarliestChain(m, s, patchfile.fromPv), patchfile)

\* C21: among the chains of the least length, getPatchChain returns the one
\* whose last patch is the earliest in the target's fromPatches, and so on
\* back at each node of the chain.
C21_EarliestOfShortest ==
    (chainDone /\ chainResult.found) =>
        chainResult.chain = EarliestChain(pm, startPv, targetPv)

\* two patches of the target end a shortest path, and the chain returned ends
\* with the first of them
C21_Witness ==
    /\ chainDone
    /\ chainResult.found
    /\ Cardinality(Shortest(pm, startPv, targetPv)) >= 2
    /\ \E i \in Shortest(pm, startPv, targetPv) :
           /\ chainResult.chain[Len(chainResult.chain)] = pm.fromPatches[targetPv][i]
           /\ \A j \in Shortest(pm, startPv, targetPv) : i <= j
    /\ Len(chainResult.chain) >= 2

----------------------------------------------------------------------------
(* The plan among the ways to re-create a file *)

\* The nodes a plan can start at: those that hold a temporary file and those
\* anchored as the current or the base version
Starts(m) == {n \in DOMAIN m.tempFile : m.tempFile[n] # None \/ IsAnchored(m, n)}

\* The nodes that have a temporary file in m2 and had none in m1
NewlyMade(m1, m2) == {n \in DOMAIN m1.tempFile : m1.tempFile[n] = None /\ m2.tempFile[n] # None}

\* C22: the plan of getRecreateFilePlan is a path of recorded patches from a
\* start (a node with a temporary file, or one anchored as current or base)
\* to the node, with no more patches than any way from any start; it is
\* empty when the node is a start itself; and getFile applies the patches of
\* that plan in order and no other (all of them when it returns a path, those
\* up to the failing one when decompressFile or Patchfile.apply fails).
C22_MinimalPlan ==
    [][LET self == lastCall'.self
           rp == getRecreateFilePlan(pm, self, <<>>)
           plan == rp.plan
           applied == {plan[i].pv : i \in 1..lastCall'.nApply}
       IN  /\ rp.found <=> \E x \in Starts(pm) : PathExists(pm, x, self)
           /\ rp.found =>
                  /\ rp.startPv \in Starts(pm)
                  /\ \A x \in Starts(pm), k \in WalkLens :
                         WalkExists(pm, x, self, k) => Len(plan) <= k
                  /\ self \in Starts(pm) => plan = <<>>
                  /\ \A i \in 1..Len(plan) :
                         /\ IsRecorded(pm, plan[i].patchfile)
                         /\ plan[i].patchfile.toPv = plan[i].pv
                         /\ plan[i].patchfile.fromPv =
                                IF i = 1 THEN rp.startPv ELSE plan[i - 1].pv
                  /\ plan # <<>> => plan[Len(plan)].pv = self
           /\ lastCall'.nApply <= Len(plan)
           /\ lastCall'.result.kind = "path" => lastCall'.nApply = Len(plan)
           /\ lastCall'.result.kind = "path" => applied \subseteq NewlyMade(pm, pm')
           /\ NewlyMade(pm, pm') \subseteq applied \cup {rp.startPv}]_vars

\* a node next to one that holds a temporary file is made from that file by
\* one patch, though an anchored node leads to it by two
C22_Witness ==
    /\ lastCall.result.kind = "path"
    /\ lastCall.nApply = 1
    /\ lastCall.nDecompress = 0
    /\ lastCall.hadFile = None
    /\ \E x \in Nodes :
           /\ IsAnchored(pm, x)
           /\ WalkExists(pm, x, lastCall.self, 2)
           /\ ~WalkExists(pm, x, lastCall.self, 1)

----------------------------------------------------------------------------
(* The name of a new patchfile *)

\* C23 as the claim states it: the name under which processPackage records
\* a new patch is the name of no patch the package had recorded before, for
\* every descriptor readDescFile accepts, one with patch_version and a top
\* version that is not the current one included.
C23_NewPatchNameUnused ==
    lastRun.ran =>
        \A p \in lastRun.authored :
            LET patches == lastRun.patches[p]
            IN  \A i \in 1..(Len(patches) - 1) : patches[i].file # patches[Len(patches)].file

----------------------------------------------------------------------------
(* A node's temporary file is assigned once *)

\* C24: over any getFile calls of a session a node's tempFile, once it is
\* not None, is never assigned again, and the assertion before the
\* decompression (startPv.tempFile is None) never fails.
C24_TempAssignedOnce ==
    [][/\ \A n \in Nodes : pm.tempFile[n] # None => pm'.tempFile[n] = pm.tempFile[n]
       /\ lastCall'.result.kind # "AssertionError"]_vars

\* an anchored node was asked for and decompressed, and a later call has
\* started another node's plan at it
C24_Witness ==
    /\ lastCall.result.kind = "path"
    /\ lastCall.nApply >= 1
    /\ lastCall.nDecompress = 0
    /\ \E x \in Nodes :
           /\ IsAnchored(pm, x)
           /\ pm.tempFile[x] # None
           /\ pm.tempFile[x] < pm.tempFile[lastCall.self]
           /\ Len(pm.fromPatches[lastCall.self]) = 1
           /\ pm.fromPatches[lastCall.self][1].fromPv = x

----------------------------------------------------------------------------
(* The patches of a descriptor over a run *)

\* C25: a buildPatches run that returns true leaves every patch of every
\* descriptor recorded, with its file, source and target and in its place,
\* and adds at most one patch to a descriptor.
C25_PatchesKept ==
    [][(lastRun'.ran /\ lastRun'.result = "True") =>
           \A p \in Packages :
               /\ Len(desc'[p].patches) \in {Len(desc[p].patches), Len(desc[p].patches) + 1}
               /\ \A i \in 1..Len(desc[p].patches) : desc'[p].patches[i] = desc[p].patches[i]]_vars

\* a descriptor that had a patch has been rewritten with that patch first and
\* a new one after it
C25_Witness ==
    /\ lastRun.ran
    /\ lastRun.result = "True"
    /\ \E p \in lastRun.authored \cap lastRun.savedDescs :
           /\ Len(desc[p].patches) >= 2
           /\ desc[p].patches[1] # desc[p].patches[Len(desc[p].patches)]
           /\ desc[p].patches[Len(desc[p].patches)].target = desc[p].top

----------------------------------------------------------------------------
(* The patch lists after several queries *)

\* No entry of the list comes twice
NoRepeat(s) == \A i, j \in 1..Len(s) : s[i] = s[j] => i = j

\* C26 as the claim states it: after any number of getPatchChainToCurrent
\* queries on one instance, every recorded patch is once in the toPatches of
\* its source and once in the fromPatches of its target.
C26_EdgesRecordedOnce ==
    \A n \in DOMAIN pm.toPatches :
        /\ NoRepeat(pm.toPatches[n])
        /\ NoRepeat(pm.fromPatches[n])

----------------------------------------------------------------------------
(* The packages a run is not asked to process *)

\* C27 as the claim states it: buildPatches(packageNames) leaves every
\* package that is not named as it was: its descriptor is not rewritten, its
\* compressed archive is not renamed, no base copy is made and no patch is
\* authored for it.
C27_UnnamedUntouched ==
    [][(lastRun'.ran /\ lastRun'.packageNames # AllPackages) =>
           \A p \in Packages \ lastRun'.packageNames :
               /\ desc'[p] = desc[p]
               /\ archives'[p] = archives[p]
               /\ baseArchive'[p] = baseArchive[p]
               /\ p \notin lastRun'.authored
               /\ p \notin lastRun'.savedDescs]_vars

====
